---- MODULE Spec2Model ----
(***************************************************************************)
(* Model of biblio_quality.py: the heuristic classifier of bibliography    *)
(* records (classify_row, classify_source), its helpers (field access,     *)
(* extract_domain, collect_rank_text, parse_rank_schemes, normalize_rank)  *)
(* and the statistics step (compute_stats, print_report, evaluate_quality).*)
(*                                                                         *)
(* Python strings are TLA+ strings; Len, SubSeq and \o act on them         *)
(* character by character.  The module text is ASCII, so the few non-ASCII *)
(* characters of the source are written with stand-in characters that      *)
(* occur nowhere else in the model:                                        *)
(*     "@"   U+0430  Cyrillic small a           (lines 68, 138)            *)
(*     "%"   U+2212  minus sign                 (line 132)                 *)
(*     "~"   U+2013  en dash                    (line 133)                 *)
(*     "&"   U+2014  em dash                    (line 134)                 *)
(*     "^"   U+2605  black star                 (line 172)                 *)
(*     "<>=!"        the Cyrillic word of lines 196 and 271 (lower case)   *)
(***************************************************************************)
EXTENDS Integers, Sequences, FiniteSets, TLC

VARIABLES
    pc,                      \* position of the run that is being modelled
    url, domain,             \* extract_domain: argument and result
    rank_text, flags,        \* parse_rank_schemes: argument and result
    data, treat_preprints_as_grey,   \* decoded JSON records; configuration flag
    df,                      \* the DataFrame of load_bibliography, <<>> before it
    cat_row, cat_source,     \* Category column by classify_row / classify_source
    categories,              \* StatsAggregator input: category -> count
    a_star_min, rinc_min, grey_max,  \* caller-supplied thresholds (percent)
    stats,                   \* category -> percentage in hundredths of a percent
    report                   \* what the report printed: no-data line and verdicts

vars == <<pc, url, domain, rank_text, flags, data, treat_preprints_as_grey, df,
          cat_row, cat_source, categories, a_star_min, rinc_min, grey_max,
          stats, report>>

(***************************************************************************)
(* Python str operations                                                   *)
(***************************************************************************)
\* the Python slice s[i-1:j]: indices past either end are clamped
Sub(s, i, j) ==
    LET a == IF i < 1 THEN 1 ELSE i
        b == IF j > Len(s) THEN Len(s) ELSE j
    IN IF a > b THEN "" ELSE SubSeq(s, a, b)

Upper == <<"A","B","C","D","E","F","G","H","I","J","K","L","M",
           "N","O","P","Q","R","S","T","U","V","W","X","Y","Z">>
LowerL == <<"a","b","c","d","e","f","g","h","i","j","k","l","m",
            "n","o","p","q","r","s","t","u","v","w","x","y","z">>

LowerChar(c) ==
    IF \E i \in 1..26 : Upper[i] = c
    THEN LowerL[CHOOSE i \in 1..26 : Upper[i] = c]
    ELSE c

RECURSIVE Lower(_)
\* str.lower()
Lower(s) ==
    IF s = "" THEN ""
    ELSE LowerChar(Sub(s, 1, 1)) \o Lower(Sub(s, 2, Len(s)))

\* `sub in s`
Contains(s, sub) ==
    \E i \in 1..(Len(s) - Len(sub) + 1) : Sub(s, i, i + Len(sub) - 1) = sub

\* s.find(sub): the first index (0-based), -1 when absent
Find(s, sub) ==
    IF Contains(s, sub)
    THEN (CHOOSE i \in 1..(Len(s) - Len(sub) + 1) :
            /\ Sub(s, i, i + Len(sub) - 1) = sub
            /\ \A j \in 1..(i - 1) : Sub(s, j, j + Len(sub) - 1) # sub) - 1
    ELSE -1

RECURSIVE Replace(_, _, _)
\* s.replace(old, new): every non-overlapping occurrence, left to right
Replace(s, old, new) ==
    IF Len(s) < Len(old) THEN s
    ELSE IF Sub(s, 1, Len(old)) = old
         THEN new \o Replace(Sub(s, Len(old) + 1, Len(s)), old, new)
         ELSE Sub(s, 1, 1) \o Replace(Sub(s, 2, Len(s)), old, new)

RECURSIVE LStrip(_)
LStrip(s) ==
    IF s # "" /\ Sub(s, 1, 1) = " " THEN LStrip(Sub(s, 2, Len(s))) ELSE s

RECURSIVE RStrip(_)
RStrip(s) ==
    IF s # "" /\ Sub(s, Len(s), Len(s)) = " "
    THEN RStrip(Sub(s, 1, Len(s) - 1)) ELSE s

\* str.strip(); the space is the only whitespace the inputs carry
Strip(s) == RStrip(LStrip(s))

RECURSIVE Join(_, _)
\* sep.join(parts)
Join(sep, parts) ==
    IF parts = <<>> THEN ""
    ELSE IF Len(parts) = 1 THEN parts[1]
    ELSE parts[1] \o sep \o Join(sep, Tail(parts))

\* any(m in s for m in markers)
ContainsAny(s, markers) == \E k \in 1..Len(markers) : Contains(s, markers[k])

(***************************************************************************)
(* extract_domain (lines 51-57) and the urlparse it calls                  *)
(***************************************************************************)
SchemeChars == {"a","b","c","d","e","f","g","h","i","j","k","l","m","n","o","p",
                "q","r","s","t","u","v","w","x","y","z",
                "A","B","C","D","E","F","G","H","I","J","K","L","M","N","O","P",
                "Q","R","S","T","U","V","W","X","Y","Z",
                "0","1","2","3","4","5","6","7","8","9","+","-","."}
Alpha == {Upper[i] : i \in 1..26} \cup {LowerL[i] : i \in 1..26}

\* urlsplit: the text after a leading "scheme:" when there is one
AfterScheme(u) ==
    LET i == Find(u, ":") IN
    IF /\ i > 0
       /\ Sub(u, 1, 1) \in Alpha
       /\ \A k \in 1..i : Sub(u, k, k) \in SchemeChars
    THEN Sub(u, i + 2, Len(u))
    ELSE u

\* urlsplit's _splitnetloc: from after "//" to the first of "/", "?", "#"
SplitNetloc(rest) ==
    LET ends == {i \in 3..Len(rest) : Sub(rest, i, i) \in {"/", "?", "#"}}
        stop == IF ends = {} THEN Len(rest) + 1
                ELSE CHOOSE i \in ends : \A j \in ends : i <= j
    IN Sub(rest, 3, stop - 1)

\* urlparse(u).netloc; "" when the URL names no network location
UrlNetloc(u) ==
    LET rest == AfterScheme(u) IN
    IF Sub(rest, 1, 2) = "//" THEN SplitNetloc(rest) ELSE ""

\* urlsplit raises ValueError("Invalid IPv6 URL") on an unmatched bracket
UrlParseRaises(u) ==
    LET n == UrlNetloc(u) IN
    \/ Contains(n, "[") /\ ~Contains(n, "]")
    \/ Contains(n, "]") /\ ~Contains(n, "[")

extract_domain(u) ==
    IF UrlParseRaises(u) THEN ""
    ELSE Replace(Lower(UrlNetloc(u)), "www.", "")

(***************************************************************************)
(* Cells of a DataFrame row (a pd.Series) and what Python makes of them    *)
(***************************************************************************)
StrCell(v)   == [k |-> "str", v |-> v]
IntCell(n)   == [k |-> "int", v |-> n]
FloatCell(n) == [k |-> "float", v |-> n]    \* the float n.0
NaNCell      == [k |-> "nan", v |-> 0]      \* a key the record lacks
NoneCell     == [k |-> "none", v |-> 0]     \* a JSON null kept as None

Digits == <<"0","1","2","3","4","5","6","7","8","9">>

RECURSIVE IntStr(_)
\* str(n) of a non-negative int
IntStr(n) == IF n < 10 THEN Digits[n + 1] ELSE IntStr(n \div 10) \o Digits[(n % 10) + 1]

\* str(value)
PyStr(c) ==
    CASE c.k = "str"   -> c.v
      [] c.k = "int"   -> IntStr(c.v)
      [] c.k = "float" -> IntStr(c.v) \o ".0"
      [] c.k = "nan"   -> "nan"
      [] c.k = "none"  -> "None"

\* pd.notna(value)
NotNa(c) == c.k \notin {"nan", "none"}

\* `key in row and pd.notna(row[key])`, then the stripped text when it is
\* neither empty nor "-" (lines 44-46 and 90-92); "" otherwise
PresentValue(row, key) ==
    IF key \in DOMAIN row /\ NotNa(row[key])
    THEN LET value == Strip(PyStr(row[key])) IN
         IF value # "" /\ value # "-" THEN value ELSE ""
    ELSE ""

RECURSIVE get_first_present(_, _)
get_first_present(row, candidates) ==
    IF candidates = <<>> THEN ""
    ELSE LET value == PresentValue(row, Head(candidates)) IN
         IF value # "" THEN value ELSE get_first_present(row, Tail(candidates))

RECURSIVE get_values(_, _)
get_values(row, keys) ==
    IF keys = <<>> THEN <<>>
    ELSE LET value == PresentValue(row, Head(keys)) IN
         (IF value # "" THEN <<value>> ELSE <<>>) \o get_values(row, Tail(keys))

\* row.get(key, "")
RowGet(row, key) == IF key \in DOMAIN row THEN row[key] ELSE StrCell("")

(***************************************************************************)
(* normalize_rank (lines 60-84)                                            *)
(***************************************************************************)
replacements == <<
    <<"@*", "a*">>,
    <<"q-1", "q1">>, <<"q-2", "q2">>, <<"q-3", "q3">>, <<"q-4", "q4">>,
    <<"q 1", "q1">>, <<"q 2", "q2">>, <<"q 3", "q3">>, <<"q 4", "q4">>,
    <<"quartile 1", "q1">>, <<"quartile 2", "q2">>,
    <<"quartile 3", "q3">>, <<"quartile 4", "q4">> >>

RECURSIVE ApplyReplacements(_, _)
ApplyReplacements(rank, reps) ==
    IF reps = <<>> THEN rank
    ELSE ApplyReplacements(Replace(rank, Head(reps)[1], Head(reps)[2]), Tail(reps))

normalize_rank(rank_raw) == ApplyReplacements(Lower(Strip(rank_raw)), replacements)

(***************************************************************************)
(* collect_rank_text (lines 97-121)                                        *)
(***************************************************************************)
rank_fields == <<"journal_rank", "rank", "quartile", "scopus_quartile",
                 "wos_quartile", "sjr_rank", "snip_rank", "abdc_rank", "abdc",
                 "core_rank", "core", "abs_rank", "ajg_rank", "cabs_rank",
                 "ajg", "abs", "cabs">>

collect_rank_text(row) == Lower(Join(" | ", get_values(row, rank_fields)))

(***************************************************************************)
(* parse_rank_schemes (lines 124-179); the flags dict is the set of its    *)
(* keys, every value being True                                            *)
(***************************************************************************)
\* lines 129-138: lower-case, unify the dashes, drop the spaces, Latin a*
NormalizeRankText(text) ==
    Replace(Replace(Replace(Replace(Replace(Lower(text),
        "%", "-"), "~", "-"), "&", "-"), " ", ""), "@*", "a*")

Quartiles  == <<"q1", "q2", "q3", "q4">>
Grades     == <<"a*", "a", "b", "c">>
AbsSchemes == <<"abs", "ajg", "cabs">>
Levels     == <<"4*", "4", "3", "2", "1">>

\* lines 146-148
QuartileFlags(text) ==
    {Quartiles[i] : i \in {j \in 1..4 :
        \/ Contains(text, Quartiles[j])
        \/ Contains(text, "quartile" \o Sub(Quartiles[j], 2, 2))}}

\* lines 151-160
AbdcFlags(text) ==
    IF Contains(text, "abdc")
    THEN (IF Contains(text, "abdca*") \/ Contains(text, "a*abdc")
          THEN {"abdc_a*"} ELSE {})
         \cup {"abdc_" \o Grades[i] : i \in {j \in 1..4 :
                  Contains(text, "abdc" \o Grades[j])}}
         \cup {"abdc_" \o Grades[i] : i \in {j \in 1..4 :
                  \/ Contains(text, "abdc-" \o Grades[j])
                  \/ Contains(text, "abdc_" \o Grades[j])}}
    ELSE {}

\* lines 163-166
CoreFlags(text) ==
    IF Contains(text, "core")
    THEN {"core_" \o Grades[i] : i \in {j \in 1..4 :
             \/ Contains(text, "core" \o Grades[j])
             \/ Contains(text, "core-" \o Grades[j])
             \/ Contains(text, "core_" \o Grades[j])}}
    ELSE {}

\* the loop body without its underscore-joined pattern
AbsSchemeFlagsNoUnderscore(text, scheme) ==
    IF Contains(text, scheme)
    THEN {"abs_" \o Levels[i] : i \in {j \in 1..5 :
             \/ Contains(text, scheme \o Levels[j])
             \/ Contains(text, scheme \o "-" \o Levels[j])
             \/ Contains(text, scheme \o Replace(Levels[j], "*", "^"))}}
    ELSE {}

\* lines 169-177, one scheme of the loop
AbsSchemeFlags(text, scheme) ==
    IF Contains(text, scheme)
    THEN {"abs_" \o Levels[i] : i \in {j \in 1..5 :
             LET level == Levels[j]
                 lvl_norm == Replace(level, "*", "^")
             IN \/ Contains(text, scheme \o level)
                \/ Contains(text, scheme \o "-" \o level)
                \/ Contains(text, scheme \o "_" \o level)
                \/ Contains(text, scheme \o lvl_norm)}}
    ELSE {}

AbsFlags(text) == UNION {AbsSchemeFlags(text, AbsSchemes[i]) : i \in 1..3}

parse_rank_schemes(text_in) ==
    LET text == NormalizeRankText(text_in) IN
    QuartileFlags(text) \cup AbdcFlags(text) \cup CoreFlags(text) \cup AbsFlags(text)

(***************************************************************************)
(* Categories (lines 10-16); the three Cyrillic values are written by      *)
(* their English names                                                     *)
(***************************************************************************)
CATEGORY_ASTAR      == "AStar"
CATEGORY_RINC       == "RINC"
CATEGORY_GREY       == "Grey"
CATEGORY_PREPRINT   == "Preprint"
CATEGORY_CONFERENCE == "Conference"
CATEGORY_STANDARD   == "Standard"
CATEGORY_UNKNOWN    == "Unknown"

Categories == {CATEGORY_ASTAR, CATEGORY_RINC, CATEGORY_GREY, CATEGORY_PREPRINT,
               CATEGORY_CONFERENCE, CATEGORY_STANDARD, CATEGORY_UNKNOWN}

\* filter(None, parts)
RECURSIVE FilterNonEmpty(_)
FilterNonEmpty(parts) ==
    IF parts = <<>> THEN <<>>
    ELSE (IF Head(parts) # "" THEN <<Head(parts)>> ELSE <<>>)
         \o FilterNonEmpty(Tail(parts))

\* lines 229-236 and 259-266: the rank flags that qualify for A*
QualifyingFlags == {"q1", "q2", "abdc_a*", "abdc_a", "core_a*", "core_a",
                    "abs_4*", "abs_4"}

(***************************************************************************)
(* classify_row (lines 182-240)                                            *)
(***************************************************************************)
source_keys == <<"Source", "source", "Journal", "journal", "Publisher",
                 "publisher", "Venue", "venue">>
url_keys    == <<"URL", "url", "Link", "link", "Href", "href">>

row_rinc_markers == <<"rinc", "<>=!", "elibrary", "e-library", "elibrary.ru",
                      "e-library.ru", "cyberleninka", "cyberleninka.ru">>
row_grey_markers == <<"habr", "medium", "blog", "vc.ru", "substack", "teletype",
                      "github.io", "dev.to", "t.me", "telegram", "researchgate">>
row_preprint_markers == <<"arxiv", "biorxiv", "bioarxiv", "medrxiv", "chemrxiv",
                          "preprint">>
standard_domains == {"w3.org", "rfc-editor.org", "ietf.org", "iso.org",
                     "ecma-international.org", "itu.int", "whatwg.org",
                     "oasis-open.org", "khronos.org"}
standard_markers == <<"rfc", "recommendation", "specification", "technicalreport">>

\* line 192
RowTextBlob(row) ==
    LET source == Lower(get_first_present(row, source_keys))
        u      == get_first_present(row, url_keys)
    IN Lower(Join(" ", FilterNonEmpty(<<source, extract_domain(u), u>>)))

classify_row(row, treat_as_grey) ==
    LET u          == get_first_present(row, url_keys)
        dom        == extract_domain(u)
        rank_flags == parse_rank_schemes(collect_rank_text(row))
        text_blob  == RowTextBlob(row)
    IN IF ContainsAny(text_blob, row_rinc_markers) THEN CATEGORY_RINC
       ELSE IF ContainsAny(text_blob, row_grey_markers) THEN CATEGORY_GREY
       ELSE IF ContainsAny(text_blob, row_preprint_markers)
            THEN (IF treat_as_grey THEN CATEGORY_GREY ELSE CATEGORY_PREPRINT)
       ELSE IF dom \in standard_domains \/ ContainsAny(text_blob, standard_markers)
            THEN CATEGORY_STANDARD
       ELSE IF rank_flags \cap QualifyingFlags # {} THEN CATEGORY_ASTAR
       ELSE CATEGORY_UNKNOWN

(***************************************************************************)
(* classify_source (lines 243-305)                                         *)
(***************************************************************************)
simple_astar_ranks == {"1", "2", "q1", "q2", "a*", "a"}

src_rinc_markers == <<"rinc", "<>=!", "elibrary", "cyberleninka">>
src_rinc_domains == {"elibrary.ru", "cyberleninka.ru"}
src_preprint_markers == <<"arxiv", "biorxiv", "medrxiv", "chemrxiv", "preprint">>
src_preprint_domains == {"arxiv.org", "biorxiv.org", "medrxiv.org"}
conference_markers == <<"conference", "conf.", "proceedings", "workshop",
    "symposium", "companion", "neurips", "nips", "icml", "iclr", "kdd", "www ",
    "thewebconf", "sigmod", "vldb", "icse", "fse", "aaai", "ijcai", "emnlp",
    "acl", "naacl", "eccv", "cvpr", "iccv">>
conf_domains == {"dl.acm.org", "ieeexplore.ieee.org", "aaai.org"}
src_grey_markers == <<"internet source", "habr", "medium", "blog", "vc.ru",
    "substack", "teletype", "github.io", "dev.to", "t.me", "telegram",
    "researchgate", "stackoverflow", "stack overflow", "reddit", "quora",
    "wikipedia", "wiki", "blogspot", "wordpress", "vk.com", "youtube.com">>
grey_domains == {"habr.com", "medium.com", "vc.ru", "substack.com", "teletype.in",
    "github.io", "dev.to", "t.me", "telegram.me", "researchgate.net",
    "stackoverflow.com", "stackexchange.com", "reddit.com", "quora.com",
    "wikipedia.org", "blogspot.com", "wordpress.com", "vk.com", "youtube.com",
    "github.com"}

\* lines 255 and 258: the simplified single-value rank qualifies
SimpleRankQualifies(row) ==
    normalize_rank(PyStr(RowGet(row, "journal_rank"))) \in simple_astar_ranks

classify_source(row) ==
    LET source     == Lower(PyStr(RowGet(row, "Source")))
        dom        == extract_domain(PyStr(RowGet(row, "URL")))
        rank_flags == parse_rank_schemes(collect_rank_text(row))
    IN IF SimpleRankQualifies(row) \/ rank_flags \cap QualifyingFlags # {}
            THEN CATEGORY_ASTAR
       ELSE IF ContainsAny(source, src_rinc_markers) \/ dom \in src_rinc_domains
            THEN CATEGORY_RINC
       ELSE IF ContainsAny(source, src_preprint_markers)
               \/ dom \in src_preprint_domains
            THEN CATEGORY_PREPRINT
       ELSE IF ContainsAny(source, conference_markers) \/ dom \in conf_domains
            THEN CATEGORY_CONFERENCE
       ELSE IF ContainsAny(source, src_grey_markers) \/ dom \in grey_domains
            THEN CATEGORY_GREY
       ELSE CATEGORY_UNKNOWN

(***************************************************************************)
(* load_bibliography (lines 29-39): pd.DataFrame(data) on the decoded list *)
(* of JSON objects.  A JSON value is StrCell, IntCell or NoneCell (null).  *)
(* A column exists for every key of any record; a record that lacks the    *)
(* key gets NaN there.  A column whose values are ints, with at least one  *)
(* NaN or null beside them, becomes float64: its ints read back as floats  *)
(* and its nulls as NaN.  Any other column keeps its objects as they are.  *)
(***************************************************************************)
Columns(recs) == UNION {DOMAIN recs[i] : i \in 1..Len(recs)}

ColumnValues(recs, col) ==
    {recs[i][col] : i \in {j \in 1..Len(recs) : col \in DOMAIN recs[j]}}

HasMissing(recs, col) ==
    \/ \E i \in 1..Len(recs) : col \notin DOMAIN recs[i]
    \/ NoneCell \in ColumnValues(recs, col)

IsFloatColumn(recs, col) ==
    /\ \E v \in ColumnValues(recs, col) : v.k = "int"
    /\ \A v \in ColumnValues(recs, col) : v.k \in {"int", "none"}
    /\ HasMissing(recs, col)

FrameCell(recs, i, col) ==
    IF col \notin DOMAIN recs[i] THEN NaNCell
    ELSE IF IsFloatColumn(recs, col)
         THEN (IF recs[i][col].k = "int" THEN FloatCell(recs[i][col].v) ELSE NaNCell)
         ELSE recs[i][col]

\* the rows of the frame, in order
DataFrame(recs) ==
    [i \in 1..Len(recs) |-> [col \in Columns(recs) |-> FrameCell(recs, i, col)]]

(***************************************************************************)
(* compute_stats (lines 324-328) and line 311 of evaluate_quality.         *)
(* `categories` maps each category to the number of rows that carry it;    *)
(* percentages are integers in hundredths of a percent.                    *)
(***************************************************************************)
RECURSIVE SumOver(_, _)
SumOver(f, S) ==
    IF S = {} THEN 0
    ELSE LET c == CHOOSE x \in S : TRUE IN f[c] + SumOver(f, S \ {c})

Total(cats) == SumOver(cats, DOMAIN cats)

\* rounding replaced by truncation
RoundDown(n, d) == n \div d

\* round(2) of n/d percent, in hundredths: to nearest, ties to even
RoundHalfEven(n, d) ==
    LET q == n \div d
        r == n % d
    IN IF 2 * r < d THEN q
       ELSE IF 2 * r > d THEN q + 1
       ELSE IF q % 2 = 0 THEN q ELSE q + 1

\* (value_counts(normalize=True) * 100).round(2).to_dict()
Percentages(cats) ==
    [c \in {x \in DOMAIN cats : cats[x] > 0} |->
        RoundHalfEven(cats[c] * 10000, Total(cats))]

compute_stats(cats) == IF Total(cats) = 0 THEN <<>> ELSE Percentages(cats)

\* stats.get(category, 0.0)
StatsGet(st, c) == IF c \in DOMAIN st THEN st[c] ELSE 0

Verdict(ok) == IF ok THEN "OK" ELSE "FAIL"

\* print_report (lines 331-346): thresholds are percents
print_report(st, amin, rmin, gmax) ==
    [nodata |-> st = <<>>,
     astar  |-> Verdict(StatsGet(st, CATEGORY_ASTAR) >= amin * 100),
     rinc   |-> Verdict(StatsGet(st, CATEGORY_RINC) >= rmin * 100),
     grey   |-> Verdict(StatsGet(st, CATEGORY_GREY) <= gmax * 100)]

\* evaluate_quality (lines 317-320): the thresholds written in the code
EvalAStarMin == 50
EvalRincMin  == 15
EvalGreyMax  == 10

evaluate_quality_report(st) ==
    [nodata |-> FALSE,
     astar  |-> Verdict(StatsGet(st, CATEGORY_ASTAR) >= EvalAStarMin * 100),
     rinc   |-> Verdict(StatsGet(st, CATEGORY_RINC) >= EvalRincMin * 100),
     grey   |-> Verdict(StatsGet(st, CATEGORY_GREY) <= EvalGreyMax * 100)]

\* main_interactive (lines 370-372): an empty frame ends the run with the
\* "input list is empty" line and no verdicts
empty_exit_report == [nodata |-> TRUE, astar |-> "-", rinc |-> "-", grey |-> "-"]

NoReport == [nodata |-> FALSE, astar |-> "-", rinc |-> "-", grey |-> "-"]

(***************************************************************************)
(* Bounds and input sets                                                   *)
(***************************************************************************)
MaxBatch    == 2     \* records in one decoded JSON list
MaxRecords  == 7     \* categorized rows handed to the statistics step
MaxRankToks == 3     \* tokens concatenated into one rank text
MaxHostToks == 3     \* tokens concatenated into one URL host

RECURSIVE TokenStrings(_, _)
\* the concatenations of at most n tokens
TokenStrings(tokens, n) ==
    IF n = 0 THEN {""}
    ELSE LET shorter == TokenStrings(tokens, n - 1) IN
         shorter \cup {t \o w : t \in tokens, w \in shorter}

Absent == [k |-> "absent", v |-> 0]

SourceInputs == {Absent, StrCell("Habr blog"), StrCell("Nature"),
                 StrCell("ICML Proceedings"), StrCell("-")}
UrlInputs    == {Absent, StrCell("https://elibrary.ru/item"),
                 StrCell("https://arxiv.org/abs/1234"),
                 StrCell("https://www.w3.org/TR/x"),
                 StrCell("https://dl.acm.org/doi/1"),
                 StrCell("https://example.org/a")}
JournalRankInputs == {Absent, StrCell("Q1"), StrCell("A"), StrCell("Q3"),
                      IntCell(1), NoneCell}
RankInputs   == {Absent, StrCell("ABDC-A*")}

\* a JSON object: the keys whose value is not Absent
Record(src, u, jr, rk) ==
    LET choice == [Source |-> src, URL |-> u, journal_rank |-> jr, rank |-> rk]
    IN [key \in {x \in DOMAIN choice : choice[x] # Absent} |-> choice[key]]

\* a list of objects without any key makes an empty frame, which ends the
\* run before anything is classified (line 370): the first record has a key
RecordInputs == {Record(src, u, jr, rk) : src \in SourceInputs, u \in UrlInputs,
                 jr \in JournalRankInputs, rk \in RankInputs} \ {<<>>}

\* the records that share the batch with the first one
CompanionInputs == {[journal_rank |-> NoneCell],
                    [Source |-> StrCell("Nature")],
                    [journal_rank |-> IntCell(2)]}

RECURSIVE SeqsUpTo(_, _)
SeqsUpTo(S, n) ==
    IF n = 0 THEN {<<>>}
    ELSE LET shorter == SeqsUpTo(S, n - 1) IN
         shorter \cup {<<x>> \o w : x \in S, w \in shorter}

BatchInputs == {<<r>> \o rest : r \in RecordInputs,
                rest \in SeqsUpTo(CompanionInputs, MaxBatch - 1)}

RankTokens == {"abdc", "core", "cabs", "a*", "a", "@*", "4*", "4^", "4",
               "-", "_", " ", "&", "q1", "Quartile 2"}
RankTextInputs == TokenStrings(RankTokens, MaxRankToks)

HostTokens == {"www.", "WWW.", "cdn.", "Example", ".com", ":8080", ".", "["}
UrlTextInputs ==
    {scheme \o host \o path : scheme \in {"http://", "HTTPS://", "//", ""},
        host \in TokenStrings(HostTokens, MaxHostToks), path \in {"", "/a", "?q"}}

ThresholdInputs == {<<50, 15, 10>>, <<30, 15, 10>>, <<50, 0, 10>>, <<50, 15, 40>>,
                    <<0, 0, 100>>}

(***************************************************************************)
(* State machine                                                           *)
(***************************************************************************)
NoCounts == [c \in Categories |-> 0]

\* the variables a run does not use
IdleDomain   == url = "" /\ domain = ""
IdleRank     == rank_text = "" /\ flags = {}
IdleClassify == /\ data = <<>> /\ treat_preprints_as_grey = TRUE /\ df = <<>>
                /\ cat_row = <<>> /\ cat_source = <<>>
IdleStats    == /\ categories = NoCounts /\ a_star_min = 0 /\ rinc_min = 0
                /\ grey_max = 0 /\ stats = <<>> /\ report = NoReport

domainVars   == <<url, domain>>
rankVars     == <<rank_text, flags>>
classifyVars == <<data, treat_preprints_as_grey, df, cat_row, cat_source>>
statsVars    == <<categories, a_star_min, rinc_min, grey_max, stats, report>>

---------------------------------------------------------------------------
\* extract_domain on one URL
InitDomain ==
    /\ pc = "domain.call"
    /\ url \in UrlTextInputs /\ domain = ""
    /\ IdleRank /\ IdleClassify /\ IdleStats

ExtractDomain ==
    /\ pc = "domain.call"
    /\ domain' = extract_domain(url)
    /\ pc' = "domain.done"
    /\ UNCHANGED <<url, rankVars, classifyVars, statsVars>>

NextDomain == ExtractDomain
SpecDomain == InitDomain /\ [][NextDomain]_vars

---------------------------------------------------------------------------
\* parse_rank_schemes on one rank text
InitRank ==
    /\ pc = "rank.call"
    /\ rank_text \in RankTextInputs /\ flags = {}
    /\ IdleDomain /\ IdleClassify /\ IdleStats

ParseRankSchemes ==
    /\ pc = "rank.call"
    /\ flags' = parse_rank_schemes(rank_text)
    /\ pc' = "rank.done"
    /\ UNCHANGED <<rank_text, domainVars, classifyVars, statsVars>>

NextRank == ParseRankSchemes
SpecRank == InitRank /\ [][NextRank]_vars

---------------------------------------------------------------------------
\* one batch: load it, then classify every row with either routine
InitClassify ==
    /\ pc = "classify.load"
    /\ data \in BatchInputs
    /\ treat_preprints_as_grey \in BOOLEAN
    /\ df = <<>> /\ cat_row = <<>> /\ cat_source = <<>>
    /\ IdleDomain /\ IdleRank /\ IdleStats

\* load_bibliography, line 39
LoadBibliography ==
    /\ pc = "classify.load"
    /\ df' = DataFrame(data)
    /\ pc' = "classify.loaded"
    /\ UNCHANGED <<data, treat_preprints_as_grey, cat_row, cat_source,
                   domainVars, rankVars, statsVars>>

\* classify_row applied to each row of the frame
ClassifyRows ==
    /\ pc = "classify.loaded" /\ cat_row = <<>>
    /\ cat_row' = [i \in 1..Len(df) |-> classify_row(df[i], treat_preprints_as_grey)]
    /\ UNCHANGED <<pc, data, treat_preprints_as_grey, df, cat_source,
                   domainVars, rankVars, statsVars>>

\* evaluate_quality, line 310: df.apply(classify_source, axis=1)
ApplyClassifySource ==
    /\ pc = "classify.loaded" /\ cat_source = <<>>
    /\ cat_source' = [i \in 1..Len(df) |-> classify_source(df[i])]
    /\ UNCHANGED <<pc, data, treat_preprints_as_grey, df, cat_row,
                   domainVars, rankVars, statsVars>>

NextClassify == LoadBibliography \/ ClassifyRows \/ ApplyClassifySource
SpecClassify == InitClassify /\ [][NextClassify]_vars

---------------------------------------------------------------------------
\* the statistics step on a column of categories
InitStats ==
    /\ pc = "stats.collect"
    /\ categories = NoCounts
    /\ \E t \in ThresholdInputs :
          a_star_min = t[1] /\ rinc_min = t[2] /\ grey_max = t[3]
    /\ stats = <<>> /\ report = NoReport
    /\ IdleDomain /\ IdleRank /\ IdleClassify

\* one more categorized row
AddCategory(c) ==
    /\ pc = "stats.collect"
    /\ Total(categories) < MaxRecords
    /\ categories' = [categories EXCEPT ![c] = @ + 1]
    /\ UNCHANGED <<pc, a_star_min, rinc_min, grey_max, stats, report,
                   domainVars, rankVars, classifyVars>>

ComputeStats ==
    /\ pc = "stats.collect"
    /\ stats' = compute_stats(categories)
    /\ pc' = "stats.computed"
    /\ UNCHANGED <<categories, a_star_min, rinc_min, grey_max, report,
                   domainVars, rankVars, classifyVars>>

PrintReport ==
    /\ pc = "stats.computed"
    /\ report' = print_report(stats, a_star_min, rinc_min, grey_max)
    /\ pc' = "stats.reported"
    /\ UNCHANGED <<categories, a_star_min, rinc_min, grey_max, stats,
                   domainVars, rankVars, classifyVars>>

\* main_interactive, lines 370-374: an empty frame ends the run, any other
\* goes through evaluate_quality, whose categories come from classify_source
MainInteractiveEmpty ==
    /\ pc = "stats.collect"
    /\ Total(categories) = 0
    /\ report' = empty_exit_report
    /\ pc' = "stats.empty_exit"
    /\ UNCHANGED <<categories, a_star_min, rinc_min, grey_max, stats,
                   domainVars, rankVars, classifyVars>>

EvaluateQuality ==
    /\ pc = "stats.collect"
    /\ Total(categories) > 0
    /\ categories[CATEGORY_STANDARD] = 0
    /\ stats' = Percentages(categories)
    /\ report' = evaluate_quality_report(stats')
    /\ pc' = "stats.evaluated"
    /\ UNCHANGED <<categories, a_star_min, rinc_min, grey_max,
                   domainVars, rankVars, classifyVars>>

NextStats ==
    \/ \E c \in Categories : AddCategory(c)
    \/ ComputeStats
    \/ PrintReport
    \/ MainInteractiveEmpty
    \/ EvaluateQuality
SpecStats == InitStats /\ [][NextStats]_vars

---------------------------------------------------------------------------
Init == InitDomain \/ InitRank \/ InitClassify \/ InitStats
Next == NextDomain \/ NextRank \/ NextClassify \/ NextStats
Spec == Init /\ [][Next]_vars

(***************************************************************************)
(* The rule chain as the specification states it (section 4.5): each rule  *)
(* as a predicate on a row, and the category of the first rule that        *)
(* matches in the order RINC, Grey, Preprint, Standard, Conference, AStar. *)
(***************************************************************************)
RowDomain(row) == extract_domain(get_first_present(row, url_keys))

RuleRinc(row)     == ContainsAny(RowTextBlob(row), row_rinc_markers)
RuleGrey(row)     == ContainsAny(RowTextBlob(row), row_grey_markers)
RulePreprint(row) == ContainsAny(RowTextBlob(row), row_preprint_markers)
RuleStandard(row) ==
    \/ RowDomain(row) \in standard_domains
    \/ ContainsAny(RowTextBlob(row), standard_markers)
RuleConference(row) ==
    \/ ContainsAny(RowTextBlob(row), conference_markers)
    \/ RowDomain(row) \in conf_domains
RuleAStar(row) ==
    \/ parse_rank_schemes(collect_rank_text(row)) \cap QualifyingFlags # {}
    \/ SimpleRankQualifies(row)

\* the record matches the Preprint rule and no rule above it
PreprintCase(row) == RulePreprint(row) /\ ~RuleRinc(row) /\ ~RuleGrey(row)

\* the record matches none of the five rules above AStar
NoRuleAboveAStar(row) ==
    /\ ~RuleRinc(row) /\ ~RuleGrey(row) /\ ~RulePreprint(row)
    /\ ~RuleStandard(row) /\ ~RuleConference(row)

FirstMatchCategory(row, treat_as_grey) ==
    IF RuleRinc(row) THEN CATEGORY_RINC
    ELSE IF RuleGrey(row) THEN CATEGORY_GREY
    ELSE IF RulePreprint(row)
         THEN (IF treat_as_grey THEN CATEGORY_GREY ELSE CATEGORY_PREPRINT)
    ELSE IF RuleStandard(row) THEN CATEGORY_STANDARD
    ELSE IF RuleConference(row) THEN CATEGORY_CONFERENCE
    ELSE IF RuleAStar(row) THEN CATEGORY_ASTAR
    ELSE CATEGORY_UNKNOWN

\* the categories that the two routines have assigned to row i so far
Assigned(i) ==
    (IF cat_row # <<>> THEN {cat_row[i]} ELSE {})
    \cup (IF cat_source # <<>> THEN {cat_source[i]} ELSE {})

\* the row a record becomes when it is loaded as a batch of its own
Alone(rec) == DataFrame(<<rec>>)[1]

(***************************************************************************)
(* Claims about the classifier, checked under SpecClassify                 *)
(***************************************************************************)
\* C1: every record gets exactly one of the seven categories, and the
\* category is that of the record classified on its own: it does not depend
\* on the other records of the batch.
C1_OneCategoryIndependentOfBatch ==
    \A i \in 1..Len(df) :
        /\ Assigned(i) \subseteq Categories
        /\ cat_row # <<>> =>
              cat_row[i] = classify_row(Alone(data[i]), treat_preprints_as_grey)
        /\ cat_source # <<>> => cat_source[i] = classify_source(Alone(data[i]))

\* C2: a rank field never overrides a RINC or Grey match: a record whose
\* blob holds a RINC marker is RINC, and one whose blob holds a Grey marker
\* and no RINC marker is Grey, whatever its rank fields.
C2_RankNeverOverridesRincOrGrey ==
    \A i \in 1..Len(df) :
        /\ RuleRinc(df[i]) => \A c \in Assigned(i) : c = CATEGORY_RINC
        /\ (RuleGrey(df[i]) /\ ~RuleRinc(df[i])) =>
              \A c \in Assigned(i) : c = CATEGORY_GREY

\* C3: the category is that of the first matching rule in the order RINC,
\* Grey, Preprint, Standard, Conference, AStar, Unknown.
C3_FirstMatchInCanonicalOrder ==
    \A i \in 1..Len(df) :
        \A c \in Assigned(i) :
            c = FirstMatchCategory(df[i], treat_preprints_as_grey)

\* C4: a record that matches the Preprint rule and no RINC or Grey marker is
\* Preprint when treat_preprints_as_grey is false and Grey when it is true;
\* the flag changes the category of no other record.
C4_PreprintFoldsIntoGreyByFlag ==
    \A i \in 1..Len(df) :
        /\ PreprintCase(df[i]) =>
              \A c \in Assigned(i) :
                  c = IF treat_preprints_as_grey THEN CATEGORY_GREY
                      ELSE CATEGORY_PREPRINT
        /\ ~PreprintCase(df[i]) => classify_row(df[i], TRUE) = classify_row(df[i], FALSE)

\* C5: a record that matches none of the RINC, Grey, Preprint, Standard and
\* Conference rules is AStar iff a qualifying rank signal is set or its
\* simplified journal_rank is one of 1, 2, q1, q2, a*, a; else it is Unknown.
C5_AStarIffQualifyingRank ==
    \A i \in 1..Len(df) :
        NoRuleAboveAStar(df[i]) =>
            \A c \in Assigned(i) :
                c = IF RuleAStar(df[i]) THEN CATEGORY_ASTAR ELSE CATEGORY_UNKNOWN

(***************************************************************************)
(* Claims about the statistics step, checked under SpecStats               *)
(***************************************************************************)
Abs(x) == IF x < 0 THEN -x ELSE x

Present(cats) == {c \in DOMAIN cats : cats[c] > 0}

StatsComputed == pc \in {"stats.computed", "stats.reported", "stats.evaluated"}

\* C6: for a non-empty column the statistics hold exactly the categories
\* that occur, each with count/total*100 rounded to the nearest hundredth,
\* each within [0, 100], and their sum is within 7 half-hundredths of 100.
C6_PercentagesRoundedAndSumTo100 ==
    (StatsComputed /\ Total(categories) > 0) =>
        /\ DOMAIN stats = Present(categories)
        /\ \A c \in DOMAIN stats :
              /\ stats[c] \in 0..10000
              /\ 2 * Abs(stats[c] * Total(categories) - categories[c] * 10000)
                    <= Total(categories)
        /\ 2 * Abs(SumOver(stats, DOMAIN stats) - 10000) <= 7

\* C6 witness: computed percentages whose roundings do not cancel
C6_Witness ==
    /\ pc = "stats.computed"
    /\ Cardinality(DOMAIN stats) >= 3
    /\ SumOver(stats, DOMAIN stats) # 10000

NoFail(r) == r.astar # "FAIL" /\ r.rinc # "FAIL" /\ r.grey # "FAIL"

\* C7: an empty column gives the empty statistics; the report signals "no
\* data" and reports no criterion as FAIL, whatever the thresholds.
C7_EmptyInputReportsNoFailure ==
    Total(categories) = 0 =>
        /\ pc = "stats.computed" => stats = <<>>
        /\ pc \in {"stats.reported", "stats.empty_exit"} =>
              report.nodata /\ NoFail(report)

\* C8: on every path that prints verdicts, each verdict compares the
\* category's percentage (0 when absent) with the caller's threshold.
C8_VerdictsUseCallerThresholds ==
    pc \in {"stats.reported", "stats.evaluated"} =>
        /\ report.astar = Verdict(StatsGet(stats, CATEGORY_ASTAR) >= a_star_min * 100)
        /\ report.rinc = Verdict(StatsGet(stats, CATEGORY_RINC) >= rinc_min * 100)
        /\ report.grey = Verdict(StatsGet(stats, CATEGORY_GREY) <= grey_max * 100)

(***************************************************************************)
(* Claim about extract_domain, checked under SpecDomain                    *)
(***************************************************************************)
StripLeadingWww(host) ==
    IF Sub(host, 1, 4) = "www." THEN Sub(host, 5, Len(host)) ELSE host

\* C9: the result is the lower-cased network location with only a leading
\* "www." removed, and "" when the URL cannot be parsed or names none.
C9_OnlyLeadingWwwStripped ==
    pc = "domain.done" =>
        domain = IF UrlParseRaises(url) THEN ""
                 ELSE StripLeadingWww(Lower(UrlNetloc(url)))

(***************************************************************************)
(* Claims about parse_rank_schemes, checked under SpecRank                 *)
(***************************************************************************)
\* the scheme token directly followed by, hyphen-joined with or
\* underscore-joined with the grade, anywhere in the text
Joined(text, scheme, grade) ==
    \/ Contains(text, scheme \o grade)
    \/ Contains(text, scheme \o "-" \o grade)
    \/ Contains(text, scheme \o "_" \o grade)

\* an occurrence of pattern that no "*" follows
ContainsUnstarred(text, pattern) ==
    \E i \in 1..(Len(text) - Len(pattern) + 1) :
        /\ Sub(text, i, i + Len(pattern) - 1) = pattern
        /\ Sub(text, i + Len(pattern), i + Len(pattern)) # "*"

\* as Joined, with the grade read as a whole token: a starred grade does not
\* count as an occurrence of the unstarred one
JoinedToken(text, scheme, grade) ==
    IF Contains(grade, "*") THEN Joined(text, scheme, grade)
    ELSE \/ ContainsUnstarred(text, scheme \o grade)
         \/ ContainsUnstarred(text, scheme \o "-" \o grade)
         \/ ContainsUnstarred(text, scheme \o "_" \o grade)

QuartilesAsClaimed(text) ==
    \A j \in 1..4 :
        Quartiles[j] \in flags <=>
            \/ Contains(text, Quartiles[j])
            \/ Contains(text, "quartile" \o Sub(Quartiles[j], 2, 2))

====
